---------------------------- MODULE Spec2Model ----------------------------
(***************************************************************************)
(* Model of mergin-db-sync (src/dbsync.py): two-way synchronisation        *)
(* between a Mergin Maps project (a versioned GeoPackage) and a pair of    *)
(* PostGIS schemas (base / modified).                                      *)
(*                                                                         *)
(* Spec models one configured pair (config.connections of length one) with *)
(* its environment; SpecPairs models the loop of a command over NPairs     *)
(* configured pairs; SpecConfig models the validation of the configuration *)
(* that main runs before any command.  A dataset is the set of rows it     *)
(* holds.                                                                  *)
(* Each command of the tool is one action; the failure of an external      *)
(* collaborator call (geodiff, Mergin client, database connection) is an   *)
(* input of the action naming the call that fails.                         *)
(***************************************************************************)
EXTENDS Integers, Sequences, FiniteSets, TLC

\* ------------------------------------------------------------------ bounds
NKeys == 2          \* number of rows the synchronised table can hold
MaxVersion == 2     \* the server keeps at most this many project versions
NPairs == 2         \* number of configured pairs where the loop over pairs is modelled
MaxSchemas == 2     \* longest SCHEMAS list of a configuration given to validate_config

\* A dataset is the set of rows it holds; a row is named by its key.
Keys == 1..NKeys
Dataset == SUBSET Keys
EmptyDS == {}

\* The content of a sync file that is not there (0 is no row key, so NoFile is
\* no dataset): os.path.exists(gpkg_full_path) is false.
NoFile == {0}

\* ------------------------------------------------------------------ state
VARIABLES
    server,          \* server[v] is the sync file at version v (NoFile: the project has none)
    wdExists,        \* the working directory (with .mergin) exists
    localVersion,    \* MerginProject(work_dir).metadata["version"], 0 without directory
    file,            \* work_dir/sync_file
    basefile,        \* work_dir/.mergin/sync_file (the server's copy at localVersion)
    baseExists,      \* schema conn_cfg.base exists
    modifiedExists,  \* schema conn_cfg.modified exists
    base,            \* content of the base schema
    modified,        \* content of the modified schema
    comment,         \* COMMENT ON SCHEMA base, parsed: [name, version, error]
    last,            \* the last command run and how it ended
    report,          \* what the last command printed about the changes in the database
    clean,           \* an init succeeded and no command has failed since
    pairs,           \* SpecPairs: pairs[i] is the state of the i-th entry of config.connections
    ran,             \* SpecPairs: the last command and how it ended on each pair it was run on
    config,          \* the configuration main was started with
    verdict,         \* what validate_config made of it: "unchecked", "ok" or the ConfigError
    tmp,             \* SpecTmp: the changeset files present in tempfile.gettempdir()
    pulling          \* SpecLive: the locals of a pull that has downloaded and not yet applied

pairVars == <<server, wdExists, localVersion, file, basefile, baseExists,
              modifiedExists, base, modified, comment, last, report, clean>>
loopVars == <<pairs, ran>>
cfgVars == <<config, verdict>>
tmpVars == <<tmp>>
liveVars == <<pulling>>
vars == <<pairVars, loopVars, cfgVars, tmpVars, liveVars>>

ProjectName == "john/dbsync"
InitErrorMsg == "Initialization of db-sync failed due to a bug in geodiff"
NoComment == [name |-> "", version |-> 0, error |-> ""]

\* The program state as one record, so that a command is a function of it.
State ==
    [srv |-> server, wd |-> wdExists, lv |-> localVersion, file |-> file,
     bfile |-> basefile, bEx |-> baseExists, mEx |-> modifiedExists,
     base |-> base, mod |-> modified, cmt |-> comment]

\* Outcome of a command: the state it leaves, how it ended, and where.
Out(s, res, at) == [st |-> s, res |-> res, at |-> at]

\* An outcome together with the report of database changes it printed.
NoReport == {}
Reported(r, rep) == [st |-> r.st, res |-> r.res, at |-> r.at, rep |-> {rep}]
ReportOf(r) == IF "rep" \in DOMAIN r THEN r.rep ELSE NoReport

\* os.path.exists(gpkg_full_path), as _check_has_sync_file and init test it
exists(gpkg) == gpkg # NoFile

\* --------------------------------------------------------------- geodiff
\* geodiff diff: the row-level edits that turn dataset a into dataset b.
_geodiff_create_changeset(a, b) == [ins |-> b \ a, del |-> a \ b]

\* geodiff list-changes-summary: the number of inserts and deletes.
_geodiff_list_changes_summary(cs) ==
    [insert |-> Cardinality(cs.ins), delete |-> Cardinality(cs.del)]

\* os.path.getsize(changeset): zero size <=> no differences.
getsize(cs) == Cardinality(cs.ins) + Cardinality(cs.del)

\* len(summary) / len(details) of a changeset: zero <=> no differences.
len(cs) == Cardinality(cs.ins \cup cs.del)

\* geodiff apply refuses a changeset that does not fit the target: an insert
\* of a row that exists, a delete of a row that does not.
CanApply(d, cs) == cs.ins \cap d = {} /\ cs.del \subseteq d

_geodiff_apply_changeset(d, cs) == (d \ cs.del) \cup cs.ins

\* geodiff rebase-db: 'our' (modified) becomes base + theirs + ours, our edits
\* replayed on top of theirs; an edit both sides made is kept once.
_geodiff_rebase(b, our, base2their) ==
    LET base2our == _geodiff_create_changeset(b, our)
    IN  (((b \ base2their.del) \cup base2their.ins) \ base2our.del) \cup base2our.ins

\* ---------------------------------------------------------- Mergin client
\* mp.get_push_changes(): the sync file differs from the server's copy.
get_push_changes(s) == s.file # s.bfile

\* The pending-changes check ignored.
HasPendingChanges_Ignored(status_push) == FALSE

\* status_push['added'] or status_push['updated'] or status_push['removed']
HasPendingChanges(status_push) == status_push

\* mc.download_project(project, work_dir, version)
download_project(s, v) ==
    [s EXCEPT !.wd = TRUE, !.lv = v, !.file = s.srv[v], !.bfile = s.srv[v]]

\* mc.pull_project(work_dir) with no local file changes: the working copy
\* and its basefile move to the server's latest version.
pull_project(s) == download_project(s, Len(s.srv))

\* mc.push_project(work_dir): uploads the sync file as a new version.
push_project(s) ==
    [s EXCEPT !.srv = Append(s.srv, s.file), !.lv = Len(s.srv) + 1,
              !.bfile = s.file]

\* _set_db_project_comment(conn, schema, project_name, version, error=None)
_set_db_project_comment(s, version, error) ==
    [s EXCEPT !.cmt = [name |-> ProjectName, version |-> version, error |-> error]]

\* ------------------------------------------------------------------ pull
\* The calls of pull that can fail for an external reason.
PullFails == {"none", "info", "diff_ours", "download", "diff_theirs",
              "apply_base", "apply_modified", "rebase", "comment"}

\* The version check of pull never taken.
NoChangesOnServer_Never(server_version, local_version) == FALSE

\* if server_version == local_version: "No changes on Mergin Maps."
NoChangesOnServer(server_version, local_version) == server_version = local_version

\* needs_rebase: the base->modified changeset has non-zero size
NeedsRebase(base2our) == getsize(base2our) # 0

\* PullApply with the two schemas updated in the other order: modified before
\* base without rebase, base before the rebase with it.
PullApply_ModifiedFirst(s, base2their, needs_rebase, f) ==
    IF ~needs_rebase THEN
        IF f = "apply_modified" \/ ~CanApply(s.mod, base2their)
        THEN Out(s, "error", "apply_modified")
        ELSE LET s2 == [s EXCEPT !.mod = _geodiff_apply_changeset(s.mod, base2their)]
             IN  IF f = "apply_base" \/ ~CanApply(s2.base, base2their)
                 THEN Out(s2, "error", "apply_base")
                 ELSE LET s3 == [s2 EXCEPT !.base = _geodiff_apply_changeset(s2.base, base2their)]
                      IN  IF f = "comment" THEN Out(s3, "crash", "comment")
                          ELSE Out(_set_db_project_comment(s3, s3.lv, ""), "ok", "done")
    ELSE
        IF f = "apply_base" \/ ~CanApply(s.base, base2their)
        THEN Out(s, "error", "apply_base")
        ELSE LET s2 == [s EXCEPT !.base = _geodiff_apply_changeset(s.base, base2their)]
             IN  IF f = "rebase" THEN Out(s2, "error", "rebase")
                 ELSE LET s3 == [s2 EXCEPT !.mod = _geodiff_rebase(s2.base, s2.mod, base2their)]
                      IN  IF f = "comment" THEN Out(s3, "crash", "comment")
                          ELSE Out(_set_db_project_comment(s3, s3.lv, ""), "ok", "done")

\* PullApply with the update of base left out.
PullApply_SkipBase(s, base2their, needs_rebase, f) ==
    IF f \in {"apply_base", "apply_modified", "rebase"} THEN Out(s, "error", f)
    ELSE LET s2 == [s EXCEPT !.mod = IF needs_rebase
                                      THEN _geodiff_rebase(s.base, s.mod, base2their)
                                      ELSE _geodiff_apply_changeset(s.mod, base2their)]
         IN  IF f = "comment" THEN Out(s2, "crash", "comment")
             ELSE Out(_set_db_project_comment(s2, s2.lv, ""), "ok", "done")

\* Lines 272-286: apply theirChanges to the database, then record the version.
PullApply(s, base2their, needs_rebase, f) ==
    IF ~needs_rebase THEN
        IF f = "apply_base" \/ ~CanApply(s.base, base2their)
        THEN Out(s, "error", "apply_base")
        ELSE LET s2 == [s EXCEPT !.base = _geodiff_apply_changeset(s.base, base2their)]
             IN  IF f = "apply_modified" \/ ~CanApply(s2.mod, base2their)
                 THEN Out(s2, "error", "apply_modified")
                 ELSE LET s3 == [s2 EXCEPT !.mod = _geodiff_apply_changeset(s2.mod, base2their)]
                      IN  IF f = "comment" THEN Out(s3, "crash", "comment")
                          ELSE Out(_set_db_project_comment(s3, s3.lv, ""), "ok", "done")
    ELSE
        IF f = "rebase" THEN Out(s, "error", "rebase")
        ELSE LET s2 == [s EXCEPT !.mod = _geodiff_rebase(s.base, s.mod, base2their)]
             IN  IF f = "apply_base" \/ ~CanApply(s2.base, base2their)
                 THEN Out(s2, "error", "apply_base")
                 ELSE LET s3 == [s2 EXCEPT !.base = _geodiff_apply_changeset(s2.base, base2their)]
                      IN  IF f = "comment" THEN Out(s3, "crash", "comment")
                          ELSE Out(_set_db_project_comment(s3, s3.lv, ""), "ok", "done")

pull(s, f) ==
    IF ~s.wd THEN Out(s, "error", "no_workdir")
    ELSE IF ~exists(s.file) THEN Out(s, "error", "no_sync_file")
    ELSE IF f = "info" THEN Out(s, "error", "info")
    ELSE IF HasPendingChanges(get_push_changes(s)) THEN Out(s, "error", "pending")
    ELSE IF NoChangesOnServer(Len(s.srv), s.lv) THEN Out(s, "noop", "no_changes")
    ELSE LET gpkg_basefile_old == s.bfile IN
         IF f = "diff_ours" \/ ~(s.bEx /\ s.mEx) THEN Out(s, "error", "diff_ours")
         ELSE LET base2our == _geodiff_create_changeset(s.base, s.mod)
                  needs_rebase == NeedsRebase(base2our)
              IN  IF f = "download" THEN Out(s, "error", "download")
                  ELSE LET s1 == pull_project(s)
                           base2their == _geodiff_create_changeset(gpkg_basefile_old, s1.bfile)
                       IN  IF f = "diff_theirs" THEN Out(s1, "error", "diff_theirs")
                           ELSE PullApply(s1, base2their, needs_rebase, f)

\* ---------------------------------------------------------------- status
StatusFails == {"none", "info", "connect", "diff", "summary"}

\* StatusChanges applying the changeset it reports to base.
StatusChanges_Applying(s, cs, f) ==
    LET s1 == [s EXCEPT !.base = _geodiff_apply_changeset(s.base, cs)]
    IN  IF getsize(cs) = 0
        THEN Reported(Out(s1, "ok", "no_changes"), [changes |-> FALSE])
        ELSE IF f = "summary" THEN Out(s1, "error", "summary")
        ELSE Reported(Out(s1, "ok", "changes"),
                      [changes |-> TRUE, summary |-> _geodiff_list_changes_summary(cs)])

\* Lines 347-353: "No changes in the database." or "There are changes in DB"
\* followed by the summary of the changeset.
StatusChanges(s, cs, f) ==
    IF getsize(cs) = 0
    THEN Reported(Out(s, "ok", "no_changes"), [changes |-> FALSE])
    ELSE IF f = "summary" THEN Out(s, "error", "summary")
    ELSE Reported(Out(s, "ok", "changes"),
                  [changes |-> TRUE, summary |-> _geodiff_list_changes_summary(cs)])

status(s, f) ==
    IF ~s.wd THEN Out(s, "error", "no_workdir")
    ELSE IF ~exists(s.file) THEN Out(s, "error", "no_sync_file")
    ELSE IF HasPendingChanges(get_push_changes(s)) THEN Out(s, "error", "pending")
    ELSE IF f = "info" THEN Out(s, "error", "info")
    ELSE IF f = "connect" THEN Out(s, "crash", "connect")
    ELSE IF ~s.bEx THEN Out(s, "error", "no_base")
    ELSE IF ~s.mEx THEN Out(s, "error", "no_modified")
    ELSE IF f = "diff" THEN Out(s, "error", "diff")
    ELSE StatusChanges(s, _geodiff_create_changeset(s.base, s.mod), f)

\* ------------------------------------------------------------------ push
PushFails == {"none", "info", "connect", "diff", "summary", "apply_file",
              "upload", "apply_base", "comment"}

\* The version check of push never failing.
ServerDiverged_Never(server_version, local_version) == FALSE

\* if server_version != local_version: "There are pending changes on server"
ServerDiverged(server_version, local_version) == server_version # local_version

\* PushUpdateBase recording the version without applying the changeset to base.
PushUpdateBase_NoApply(s, cs, f) ==
    IF f = "comment" THEN Out(s, "crash", "comment")
    ELSE Out(_set_db_project_comment(s, s.lv, ""), "ok", "done")

\* Lines 424-430: after the upload, update base and record the new version.
PushUpdateBase(s, cs, f) ==
    LET version == s.lv
    IN  IF f = "apply_base" \/ ~CanApply(s.base, cs)
        THEN Out(s, "error", "apply_base")
        ELSE LET s2 == [s EXCEPT !.base = _geodiff_apply_changeset(s.base, cs)]
             IN  IF f = "comment" THEN Out(s2, "crash", "comment")
                 ELSE Out(_set_db_project_comment(s2, version, ""), "ok", "done")

\* PushUpload applying the changeset to base before the upload is known to
\* have succeeded.
PushUpload_BaseFirst(s, cs, f) ==
    IF f = "apply_file" \/ ~CanApply(s.file, cs)
    THEN Out(s, "error", "apply_file")
    ELSE LET s1 == [s EXCEPT !.file = _geodiff_apply_changeset(s.file, cs),
                             !.base = _geodiff_apply_changeset(s.base, cs)]
         IN  IF f = "upload" THEN Out(s1, "error", "upload")
             ELSE IF f = "comment" THEN Out(push_project(s1), "crash", "comment")
             ELSE Out(_set_db_project_comment(push_project(s1), Len(s1.srv) + 1, ""),
                      "ok", "done")

\* Lines 413-422: write the changes to the sync file and upload it.
PushUpload(s, cs, f) ==
    IF f = "apply_file" \/ ~CanApply(s.file, cs)
    THEN Out(s, "error", "apply_file")
    ELSE LET s1 == [s EXCEPT !.file = _geodiff_apply_changeset(s.file, cs)]
         IN  IF f = "upload" THEN Out(s1, "error", "upload")
             ELSE PushUpdateBase(push_project(s1), cs, f)

\* push going on with a changeset of size zero.
push_EmptyChangeset(s, f) ==
    IF ~s.wd THEN Out(s, "error", "no_workdir")
    ELSE IF ~exists(s.file) THEN Out(s, "error", "no_sync_file")
    ELSE IF f = "info" THEN Out(s, "error", "info")
    ELSE IF HasPendingChanges(get_push_changes(s)) THEN Out(s, "error", "pending")
    ELSE IF ServerDiverged(Len(s.srv), s.lv) THEN Out(s, "error", "diverged")
    ELSE IF f = "connect" THEN Out(s, "crash", "connect")
    ELSE IF ~s.bEx THEN Out(s, "error", "no_base")
    ELSE IF ~s.mEx THEN Out(s, "error", "no_modified")
    ELSE IF f = "diff" THEN Out(s, "error", "diff")
    ELSE LET cs == _geodiff_create_changeset(s.base, s.mod)
         IN  IF f = "summary" THEN Out(s, "error", "summary")
             ELSE PushUpload(s, cs, f)

\* Lines 356-430.
push(s, f) ==
    IF ~s.wd THEN Out(s, "error", "no_workdir")
    ELSE IF ~exists(s.file) THEN Out(s, "error", "no_sync_file")
    ELSE IF f = "info" THEN Out(s, "error", "info")
    ELSE IF HasPendingChanges(get_push_changes(s)) THEN Out(s, "error", "pending")
    ELSE IF ServerDiverged(Len(s.srv), s.lv) THEN Out(s, "error", "diverged")
    ELSE IF f = "connect" THEN Out(s, "crash", "connect")
    ELSE IF ~s.bEx THEN Out(s, "error", "no_base")
    ELSE IF ~s.mEx THEN Out(s, "error", "no_modified")
    ELSE IF f = "diff" THEN Out(s, "error", "diff")
    ELSE LET cs == _geodiff_create_changeset(s.base, s.mod)
         IN  IF getsize(cs) = 0 THEN Out(s, "noop", "no_changes")
             ELSE IF f = "summary" THEN Out(s, "error", "summary")
             ELSE PushUpload(s, cs, f)

\* ------------------------------------------------------------------ init
InitFails == {"none", "connect", "download", "status", "compare",
              "copy1", "copy2", "upload", "comment"}

\* What a geodiff copy writes: the source, or (a bug in geodiff, which the
\* self-check of init guards against) the source with row c lost or spurious.
NoCorruption == 0
Corruptions == {NoCorruption} \cup Keys

_geodiff_make_copy(src, c) ==
    IF c = NoCorruption THEN src
    ELSE IF c \in src THEN src \ {c} ELSE src \cup {c}

\* _compare_datasets(src, dst): the summary (or details) of diff src -> dst
_compare_datasets(src, dst) == _geodiff_create_changeset(src, dst)

\* shutil.rmtree(work_dir)
rmtree(s) == [s EXCEPT !.wd = FALSE, !.lv = 0, !.file = EmptyDS, !.bfile = EmptyDS]

\* InitFresh without the self-check after the two copies.
InitFresh_NoSelfCheck(s, local_version, f, c1, c2) ==
    IF f = "copy1" THEN Out(s, "crash", "copy1")
    ELSE LET s1 == [s EXCEPT !.mEx = TRUE, !.mod = _geodiff_make_copy(s.file, c1)]
         IN
         IF f = "copy2" THEN Out(s1, "crash", "copy2")
         ELSE LET s2 == [s1 EXCEPT !.bEx = TRUE, !.base = _geodiff_make_copy(s1.mod, c2)]
              IN  IF f = "comment" THEN Out(s2, "crash", "comment")
                  ELSE Out(_set_db_project_comment(s2, local_version, ""), "ok", "created")

\* InitFresh copying the file to base directly, not modified to base.
InitFresh_CopyFileToBase(s, local_version, f, c1, c2) ==
    IF f = "copy1" THEN Out(s, "crash", "copy1")
    ELSE LET s1 == [s EXCEPT !.mEx = TRUE, !.mod = _geodiff_make_copy(s.file, c1)]
         IN
         IF f = "copy2" THEN Out(s1, "crash", "copy2")
         ELSE LET s2 == [s1 EXCEPT !.bEx = TRUE, !.base = _geodiff_make_copy(s1.file, c2)]
                  tagged == _set_db_project_comment(s2, local_version, InitErrorMsg)
              IN
              IF f = "compare" THEN Out(tagged, "error", "compare")
              ELSE IF len(_compare_datasets(s2.file, s2.base)) # 0
                   THEN Out(tagged, "error", "self_check")
              ELSE IF f = "comment" THEN Out(s2, "crash", "comment")
              ELSE Out(_set_db_project_comment(s2, local_version, ""), "ok", "created")

\* Lines 526-555: neither schema exists, create both from the file.
InitFresh(s, local_version, f, c1, c2) ==
    IF f = "copy1" THEN Out(s, "crash", "copy1")
    ELSE LET s1 == [s EXCEPT !.mEx = TRUE, !.mod = _geodiff_make_copy(s.file, c1)]
         IN
         IF f = "copy2" THEN Out(s1, "crash", "copy2")
         ELSE LET s2 == [s1 EXCEPT !.bEx = TRUE, !.base = _geodiff_make_copy(s1.mod, c2)]
                  tagged == _set_db_project_comment(s2, local_version, InitErrorMsg)
              IN
              IF f = "compare" THEN Out(tagged, "error", "compare")
              ELSE IF len(_compare_datasets(s2.file, s2.base)) # 0
                   THEN Out(tagged, "error", "self_check")
              ELSE IF f = "comment" THEN Out(s2, "crash", "comment")
              ELSE Out(_set_db_project_comment(s2, local_version, ""), "ok", "created")

\* InitFromGpkg creating the missing base schema from modified.
InitFromGpkg_HealingBase(s, local_version, f, c1, c2) ==
    IF ~exists(s.file) THEN Out(s, "error", "no_gpkg")
    ELSE IF s.mEx /\ s.bEx THEN
        IF f = "compare" THEN Out(s, "error", "compare")
        ELSE LET summary_modified == _compare_datasets(s.file, s.mod)
                 summary_base == _compare_datasets(s.file, s.base)
             IN  IF len(summary_base) # 0 THEN Out(s, "error", "base_differs")
                 ELSE IF len(summary_modified) # 0 THEN Out(s, "ok", "pending_db")
                 ELSE Out(s, "noop", "in_sync")
    ELSE IF s.mEx
         THEN Out(_set_db_project_comment([s EXCEPT !.bEx = TRUE, !.base = s.mod],
                                          local_version, ""), "ok", "created")
    ELSE IF s.bEx THEN Out(s, "error", "no_modified")
    ELSE InitFresh(s, local_version, f, c1, c2)

\* InitFromGpkg copying the file over a base that differs from it.
InitFromGpkg_Repairing(s, local_version, f, c1, c2) ==
    IF ~exists(s.file) THEN Out(s, "error", "no_gpkg")
    ELSE IF s.mEx /\ s.bEx THEN
        IF f = "compare" THEN Out(s, "error", "compare")
        ELSE LET summary_modified == _compare_datasets(s.file, s.mod)
                 summary_base == _compare_datasets(s.file, s.base)
             IN  IF len(summary_base) # 0
                 THEN Out([s EXCEPT !.base = s.file], "ok", "pending_db")
                 ELSE IF len(summary_modified) # 0 THEN Out(s, "ok", "pending_db")
                 ELSE Out(s, "noop", "in_sync")
    ELSE IF s.mEx THEN Out(s, "error", "no_base")
    ELSE IF s.bEx THEN Out(s, "error", "no_modified")
    ELSE InitFresh(s, local_version, f, c1, c2)

\* InitFromGpkg accepting existing schemas whose base differs from the file.
InitFromGpkg_BaseUnchecked(s, local_version, f, c1, c2) ==
    IF ~exists(s.file) THEN Out(s, "error", "no_gpkg")
    ELSE IF s.mEx /\ s.bEx THEN
        IF f = "compare" THEN Out(s, "error", "compare")
        ELSE IF len(_compare_datasets(s.file, s.mod)) # 0 THEN Out(s, "ok", "pending_db")
        ELSE Out(s, "noop", "in_sync")
    ELSE IF s.mEx THEN Out(s, "error", "no_base")
    ELSE IF s.bEx THEN Out(s, "error", "no_modified")
    ELSE InitFresh(s, local_version, f, c1, c2)

\* Lines 499-555: initialisation with the GeoPackage as the source.
InitFromGpkg(s, local_version, f, c1, c2) ==
    IF ~exists(s.file) THEN Out(s, "error", "no_gpkg")
    ELSE IF s.mEx /\ s.bEx THEN
        IF f = "compare" THEN Out(s, "error", "compare")
        ELSE LET summary_modified == _compare_datasets(s.file, s.mod)
                 summary_base == _compare_datasets(s.file, s.base)
             IN  IF len(summary_base) # 0 THEN Out(s, "error", "base_differs")
                 ELSE IF len(summary_modified) # 0 THEN Out(s, "ok", "pending_db")
                 ELSE Out(s, "noop", "in_sync")
    ELSE IF s.mEx THEN Out(s, "error", "no_base")
    ELSE IF s.bEx THEN Out(s, "error", "no_modified")
    ELSE InitFresh(s, local_version, f, c1, c2)

\* Lines 583-615: neither the base schema nor the sync file exists, create
\* both from the modified schema and upload the file.
InitFreshFromDb(s, local_version, f, c1, c2) ==
    IF f = "copy1" THEN Out(s, "crash", "copy1")
    ELSE LET s1 == [s EXCEPT !.bEx = TRUE, !.base = _geodiff_make_copy(s.mod, c1)]
         IN
         IF f = "copy2" THEN Out(_set_db_project_comment(s1, local_version, InitErrorMsg),
                                 "error", "copy2")
         ELSE LET s2 == [s1 EXCEPT !.file = _geodiff_make_copy(s1.mod, c2)]
                  tagged == _set_db_project_comment(s2, local_version, InitErrorMsg)
              IN
              IF f = "compare" THEN Out(tagged, "error", "compare")
              ELSE IF len(_compare_datasets(s2.file, s2.base)) # 0
                   THEN Out(tagged, "error", "self_check")
              ELSE IF f = "upload" THEN Out(s2, "crash", "upload")
              ELSE LET s3 == push_project(s2)
                   IN  IF f = "comment" THEN Out(s3, "crash", "comment")
                       ELSE Out(_set_db_project_comment(s3, s3.lv, ""), "ok", "created")

\* Lines 556-615: initialisation with the modified schema as the source.
InitFromDb(s, local_version, f, c1, c2) ==
    IF ~s.mEx THEN Out(s, "error", "no_modified")
    ELSE IF exists(s.file) /\ s.bEx THEN
        IF f = "compare" THEN Out(s, "error", "compare")
        ELSE LET summary_modified == _compare_datasets(s.mod, s.file)
                 summary_base == _compare_datasets(s.base, s.file)
             IN  IF len(summary_base) # 0 THEN Out(s, "error", "base_differs")
                 ELSE IF len(summary_modified) # 0 THEN Out(s, "ok", "pending_db")
                 ELSE Out(s, "noop", "in_sync")
    ELSE IF exists(s.file) THEN Out(s, "error", "gpkg_exists")
    ELSE IF s.bEx THEN Out(s, "error", "no_gpkg")
    ELSE InitFreshFromDb(s, local_version, f, c1, c2)

\* Lines 488-497 and the dispatch on from_gpkg.
InitChecked(s, from_gpkg, f, c1, c2) ==
    LET local_version == s.lv
    IN  IF f = "status" THEN Out(s, "crash", "status")
        ELSE IF HasPendingChanges(get_push_changes(s)) THEN Out(s, "error", "pending")
        ELSE IF from_gpkg THEN InitFromGpkg(s, local_version, f, c1, c2)
        ELSE InitFromDb(s, local_version, f, c1, c2)

\* A working directory of another version is kept as it is.
StaleWorkDir_Never(local_version, comment_version) == FALSE

\* if local_version != db_proj_info["version"]: remove and download again
StaleWorkDir(local_version, comment_version) == local_version # comment_version

init(s, from_gpkg, f, c1, c2) ==
    IF f = "connect" THEN Out(s, "error", "connect")
    ELSE IF s.mEx /\ s.bEx THEN
        IF s.cmt = NoComment THEN Out(s, "error", "no_comment")
        ELSE IF s.cmt.error # "" THEN Out(s, "error", "tagged")
        ELSE IF ~s.wd THEN
            IF f = "download" THEN Out(s, "crash", "download")
            ELSE InitChecked(download_project(s, s.cmt.version), from_gpkg, f, c1, c2)
        ELSE IF StaleWorkDir(s.lv, s.cmt.version) THEN
            IF f = "download" THEN Out(rmtree(s), "crash", "download")
            ELSE InitChecked(download_project(rmtree(s), s.cmt.version), from_gpkg, f, c1, c2)
        ELSE InitChecked(s, from_gpkg, f, c1, c2)
    ELSE IF ~s.wd THEN
        IF f = "download" THEN Out(s, "crash", "download")
        ELSE InitChecked(download_project(s, Len(s.srv)), from_gpkg, f, c1, c2)
    ELSE InitChecked(s, from_gpkg, f, c1, c2)

\* dbsync_init ignores its from_gpkg argument: init(conn, mc, from_gpkg=True)
dbsync_init(s, from_gpkg, f, c1, c2) == init(s, TRUE, f, c1, c2)

\* ---------------------------------------------------------- configuration
\* A setting that is not set.
None == "None"

\* The keys every entry of SCHEMAS has to carry.
SchemaKeys == {"driver", "conn_info", "modified", "base", "mergin_project", "sync_file"}

\* An entry of SCHEMAS: the keys it carries and, if it carries one, its driver.
SchemaEntry(keys, driver) == [keys |-> keys, driver |-> driver]

\* The configuration the test calls valid.
ValidSchema == SchemaEntry(SchemaKeys, "postgres")
ValidConfig ==
    [username |-> "john", url |-> "https://app.merginmaps.com",
     working_dir |-> "/tmp/working_project", geodiff_exe |-> "geodiff",
     schemas |-> <<ValidSchema>>]

\* The entries tried: the valid one, one with another driver, one that lacks
\* one key, and the one of the test that carries "modified" only.
SchemaEntries ==
    {ValidSchema, SchemaEntry(SchemaKeys, "oracle"), SchemaEntry({"modified"}, None)}
        \cup {SchemaEntry(SchemaKeys \ {k}, IF k = "driver" THEN None ELSE "postgres") :
                k \in SchemaKeys}

SchemaLists == UNION {[1..n -> SchemaEntries] : n \in 0..MaxSchemas}

Configs ==
    [username : {None, ValidConfig.username}, url : {None, ValidConfig.url},
     working_dir : {None, ValidConfig.working_dir},
     geodiff_exe : {None, ValidConfig.geodiff_exe},
     schemas : SchemaLists]

\* The ConfigError messages the test expects.
ErrMergin == "Config error: Incorrect mergin settings"
ErrWorkingDir == "Config error: Working directory is not set"
ErrGeodiff == "Config error: Path to geodiff executable is not set"
ErrNoSchemas == "Config error: Schemas list can not be empty"
ErrSchema == "Config error: Incorrect schema settings"
ErrDriver == "Config error: Only 'postgres' driver is currently supported."
ConfigErrors == {ErrMergin, ErrWorkingDir, ErrGeodiff, ErrNoSchemas, ErrSchema, ErrDriver}

\* The check of the schema entries from the i-th on.
RECURSIVE validate_schemas(_, _)
validate_schemas(schemas, i) ==
    IF i > Len(schemas) THEN "ok"
    ELSE IF schemas[i].keys # SchemaKeys THEN ErrSchema
    ELSE IF schemas[i].driver # "postgres" THEN ErrDriver
    ELSE validate_schemas(schemas, i + 1)

\* validate_config accepting every driver.
validate_config_AnyDriver(c) ==
    IF c.url = None \/ c.username = None THEN ErrMergin
    ELSE IF c.working_dir = None THEN ErrWorkingDir
    ELSE IF c.geodiff_exe = None THEN ErrGeodiff
    ELSE IF Len(c.schemas) = 0 THEN ErrNoSchemas
    ELSE IF \E i \in 1..Len(c.schemas) : c.schemas[i].keys # SchemaKeys THEN ErrSchema
    ELSE "ok"

\* validate_config(config): "ok", or the message of the ConfigError raised.
validate_config(c) ==
    IF c.url = None \/ c.username = None THEN ErrMergin
    ELSE IF c.working_dir = None THEN ErrWorkingDir
    ELSE IF c.geodiff_exe = None THEN ErrGeodiff
    ELSE IF Len(c.schemas) = 0 THEN ErrNoSchemas
    ELSE validate_schemas(c.schemas, 1)

\* ---------------------------------------------------------------- actions
Failed(res) == res \in {"error", "crash"}

\* The state of the pair after command op ended with outcome r.
Install(op, r) ==
    /\ server' = r.st.srv
    /\ wdExists' = r.st.wd
    /\ localVersion' = r.st.lv
    /\ file' = r.st.file
    /\ basefile' = r.st.bfile
    /\ baseExists' = r.st.bEx
    /\ modifiedExists' = r.st.mEx
    /\ base' = r.st.base
    /\ modified' = r.st.mod
    /\ comment' = r.st.cmt
    /\ last' = [op |-> op, res |-> r.res]
    /\ report' = ReportOf(r)
    /\ UNCHANGED <<loopVars, cfgVars>>
    /\ clean' = IF Failed(r.res) THEN FALSE
                ELSE IF op = "init" THEN TRUE ELSE clean

\* Install the outcome r of command op (the temporary directory is followed
\* in SpecTmp only).
Finish(op, r) == Install(op, r) /\ UNCHANGED <<tmpVars, liveVars>>

\* A step of the environment, not of the tool.
Env ==
    /\ last' = [op |-> "env", res |-> "ok"]
    /\ report' = NoReport
    /\ clean' = clean
    /\ UNCHANGED <<loopVars, cfgVars, tmpVars, liveVars>>

\* geodiff copy runs only when neither schema exists; elsewhere its outcome is
\* not an input of init.
CopyInputs(s) == IF s.bEx \/ s.mEx THEN {NoCorruption} ELSE Corruptions

\* main: 'init-from-gpkg'
CmdInitFromGpkg ==
    \E f \in InitFails, c1 \in CopyInputs(State), c2 \in CopyInputs(State) :
        Finish("init", dbsync_init(State, TRUE, f, c1, c2))

\* main: 'init-from-db'
CmdInitFromDb ==
    \E f \in InitFails, c1 \in CopyInputs(State), c2 \in CopyInputs(State) :
        Finish("init", dbsync_init(State, FALSE, f, c1, c2))

\* main: 'status'
Status == \E f \in StatusFails : Finish("status", status(State, f))

\* main: 'pull'
Pull == \E f \in PullFails : Finish("pull", pull(State, f))

\* main: 'push' (an upload beyond MaxVersion versions is not explored)
Push ==
    \E f \in PushFails :
        LET r == push(State, f)
        IN  /\ Len(r.st.srv) <= MaxVersion
            /\ Finish("push", r)

\* A database client inserts or deletes one row of the modified schema.
DbEdit ==
    /\ modifiedExists
    /\ \E k \in Keys :
          modified' = IF k \in modified THEN modified \ {k} ELSE modified \cup {k}
    /\ UNCHANGED <<server, wdExists, localVersion, file, basefile, baseExists,
                   modifiedExists, base, comment>>
    /\ Env

\* A field client uploads a new version with one row inserted or deleted (of
\* a project without the sync file: a version that changes other files).
ServerEdit ==
    /\ Len(server) < MaxVersion
    /\ \E k \in Keys :
          LET latest == server[Len(server)]
          IN  server' = Append(server, IF ~exists(latest) THEN NoFile
                                       ELSE IF k \in latest THEN latest \ {k}
                                       ELSE latest \cup {k})
    /\ UNCHANGED <<wdExists, localVersion, file, basefile, baseExists,
                   modifiedExists, base, modified, comment>>
    /\ Env

\* Before the first command: the project holds the sync file or not, and the
\* database holds no schema, the schema to synchronise (the start of
\* init-from-db), or a base schema alone (left there by someone).
PairStart ==
    /\ server \in {<<Keys>>, <<NoFile>>}
    /\ wdExists = FALSE
    /\ localVersion = 0
    /\ file = EmptyDS
    /\ basefile = EmptyDS
    /\ baseExists \in BOOLEAN
    /\ modifiedExists \in BOOLEAN
    /\ ~(baseExists /\ modifiedExists)
    /\ base = IF baseExists THEN Keys ELSE EmptyDS
    /\ modified = IF modifiedExists THEN Keys ELSE EmptyDS
    /\ comment = NoComment
    /\ last = [op |-> "env", res |-> "ok"]
    /\ report = NoReport
    /\ clean = FALSE

NoRun == [op |-> "none", res |-> <<>>]

\* An empty temporary directory.
NoTmp == {}

\* No pull is under way.
NotPulling == [active |-> FALSE, needs_rebase |-> FALSE, gpkg_basefile_old |-> EmptyDS]

Init ==
    /\ PairStart
    /\ pairs = <<>>
    /\ ran = NoRun
    /\ config = ValidConfig
    /\ verdict = "ok"
    /\ tmp = NoTmp
    /\ pulling = NotPulling

Next ==
    \/ CmdInitFromGpkg
    \/ CmdInitFromDb
    \/ Status
    \/ Pull
    \/ Push
    \/ DbEdit
    \/ ServerEdit

Spec == Init /\ [][Next]_vars
\* ------------------------------------------------- the loop over the pairs
\* A configured pair before its first init: the project holds the sync file,
\* the database holds no schema.
FreshPair ==
    [srv |-> <<Keys>>, wd |-> FALSE, lv |-> 0, file |-> EmptyDS, bfile |-> EmptyDS,
     bEx |-> FALSE, mEx |-> FALSE, base |-> EmptyDS, mod |-> EmptyDS, cmt |-> NoComment]

\* The calls of a command that can fail.
FailsOf(op) ==
    IF op = "init" THEN InitFails
    ELSE IF op = "status" THEN StatusFails
    ELSE IF op = "pull" THEN PullFails
    ELSE PushFails

\* The body of the loop: the command on one pair (the geodiff copies of init
\* write what they read).
RunOn(op, s, f) ==
    IF op = "init" THEN dbsync_init(s, TRUE, f, NoCorruption, NoCorruption)
    ELSE IF op = "status" THEN status(s, f)
    ELSE IF op = "pull" THEN pull(s, f)
    ELSE push(s, f)

\* The loop going on with the next pair after a failure.
RECURSIVE ForEachPair_Continue(_, _, _, _)
ForEachPair_Continue(op, ps, fs, i) ==
    IF i > Len(ps) THEN [pairs |-> ps, res |-> <<>>]
    ELSE LET r == RunOn(op, ps[i], fs[i])
             rest == ForEachPair_Continue(op, [ps EXCEPT ![i] = r.st], fs, i + 1)
         IN  [pairs |-> rest.pairs, res |-> <<r.res>> \o rest.res]

\* for conn in config.connections: <command>(conn, mc), from the i-th pair
\* on; an exception raised for one pair ends the loop.  The result is the
\* pairs as the loop leaves them and how the command ended on each pair it
\* was called for.
RECURSIVE ForEachPair(_, _, _, _)
ForEachPair(op, ps, fs, i) ==
    IF i > Len(ps) THEN [pairs |-> ps, res |-> <<>>]
    ELSE LET r == RunOn(op, ps[i], fs[i])
             done == [ps EXCEPT ![i] = r.st]
         IN  IF Failed(r.res) THEN [pairs |-> done, res |-> <<r.res>>]
             ELSE LET rest == ForEachPair(op, done, fs, i + 1)
                  IN  [pairs |-> rest.pairs, res |-> <<r.res>> \o rest.res]

\* main: one command, run over all the configured pairs; call f fails for
\* pair k.  (The loop ends at the first failure, so what would fail for the
\* pairs after it is not an input.)
RunAll(op) ==
    \E k \in 1..NPairs, f \in FailsOf(op) :
        LET fs == [i \in 1..NPairs |-> IF i = k THEN f ELSE "none"]
            out == ForEachPair(op, pairs, fs, 1)
        IN  /\ \A i \in 1..NPairs : Len(out.pairs[i].srv) <= MaxVersion
            /\ pairs' = out.pairs
            /\ ran' = [op |-> op, res |-> out.res]
            /\ UNCHANGED <<pairVars, cfgVars, tmpVars, liveVars>>

AllInit == RunAll("init")
AllStatus == RunAll("status")
AllPull == RunAll("pull")
AllPush == RunAll("push")

\* The row a database client edits where several pairs are modelled.
EditedKey == 1

\* A database client inserts or deletes row EditedKey of the modified schema
\* of one pair, before the first push of that pair.
PairDbEdit ==
    /\ \E i \in 1..NPairs :
          /\ pairs[i].mEx /\ pairs[i].bEx
          /\ pairs[i].mod = pairs[i].base /\ Len(pairs[i].srv) = 1
          /\ pairs' = [pairs EXCEPT ![i].mod =
                          IF EditedKey \in @ THEN @ \ {EditedKey} ELSE @ \cup {EditedKey}]
    /\ ran' = NoRun
    /\ UNCHANGED <<pairVars, cfgVars, tmpVars, liveVars>>

InitPairs ==
    /\ PairStart
    /\ server = <<Keys>> /\ ~modifiedExists /\ ~baseExists
    /\ pairs = [i \in 1..NPairs |-> FreshPair]
    /\ ran = NoRun
    /\ config = ValidConfig
    /\ verdict = "ok"
    /\ tmp = NoTmp
    /\ pulling = NotPulling

NextPairs ==
    \/ AllInit
    \/ AllStatus
    \/ AllPull
    \/ AllPush
    \/ PairDbEdit

SpecPairs == InitPairs /\ [][NextPairs]_vars

\* ------------------------------------------- validating the configuration
\* main: validate_config(config); a ConfigError is printed and main returns.
Validate ==
    /\ verdict = "unchecked"
    /\ verdict' = validate_config(config)
    /\ UNCHANGED <<pairVars, loopVars, config, tmpVars, liveVars>>

InitConfig ==
    /\ PairStart
    /\ server = <<Keys>> /\ ~modifiedExists /\ ~baseExists
    /\ pairs = <<>>
    /\ ran = NoRun
    /\ config \in Configs
    /\ verdict = "unchecked"
    /\ tmp = NoTmp
    /\ pulling = NotPulling

NextConfig == Validate

SpecConfig == InitConfig /\ [][NextConfig]_vars

\* ------------------------------------------- temporary changeset files
\* The changeset files the commands write into tempfile.gettempdir(): those of
\* fixed name, and "compare" for the files of random name _compare_datasets
\* writes.
TmpStatus == "status-base2our"
TmpPush == "push-base2our"
TmpBase2Our == "pull-base2our"
TmpBase2Their == "pull-base2their"
TmpCompare == "compare"
TmpFiles == {TmpStatus, TmpPush, TmpBase2Our, TmpBase2Their, TmpCompare}

TmpFilesOf(op) ==
    IF op = "status" THEN {TmpStatus}
    ELSE IF op = "push" THEN {TmpPush}
    ELSE IF op = "pull" THEN {TmpBase2Our, TmpBase2Their}
    ELSE {TmpCompare}

\* status: nothing is touched before the schema checks have passed; then the
\* file is removed if it is there and geodiff writes it anew.  It stays.
StatusTmp(r, t) ==
    IF r.at \in {"no_workdir", "no_sync_file", "pending", "info", "connect",
                 "no_base", "no_modified"} THEN t
    ELSE IF r.at = "diff" THEN t \ {TmpStatus}
    ELSE t \cup {TmpStatus}

\* push: the file is removed first of all, and written by geodiff after the
\* checks.  It stays, also when it is empty.
PushTmp(r, t) ==
    IF r.at \in {"no_workdir", "no_sync_file", "info", "pending", "diverged",
                 "connect", "no_base", "no_modified", "diff"} THEN t \ {TmpPush}
    ELSE t \cup {TmpPush}

\* pull: geodiff writes base2our, and base2their after the download; neither
\* is removed, before or after.
PullTmp(r, t) ==
    IF r.at \in {"no_workdir", "no_sync_file", "info", "pending", "no_changes",
                 "diff_ours"} THEN t
    ELSE IF r.at \in {"download", "diff_theirs"} THEN t \cup {TmpBase2Our}
    ELSE t \cup {TmpBase2Our, TmpBase2Their}

\* init: every _compare_datasets whose diff succeeded leaves its changeset.
InitTmp(r, t) ==
    IF r.at \in {"tagged", "base_differs", "pending_db", "in_sync", "self_check",
                 "upload", "comment", "created"} THEN t \cup {TmpCompare}
    ELSE t

\* The commands, with the temporary directory followed.
InitWithTmp ==
    \E f \in InitFails :
        LET r == dbsync_init(State, TRUE, f, NoCorruption, NoCorruption)
        IN  /\ Install("init", r)
            /\ tmp' = InitTmp(r, tmp)
            /\ UNCHANGED liveVars

StatusWithTmp ==
    \E f \in StatusFails :
        LET r == status(State, f)
        IN  /\ Install("status", r)
            /\ tmp' = StatusTmp(r, tmp)
            /\ UNCHANGED liveVars

PullWithTmp ==
    \E f \in PullFails :
        LET r == pull(State, f)
        IN  /\ Install("pull", r)
            /\ tmp' = PullTmp(r, tmp)
            /\ UNCHANGED liveVars

PushWithTmp ==
    \E f \in PushFails :
        LET r == push(State, f)
        IN  /\ Len(r.st.srv) <= MaxVersion
            /\ Install("push", r)
            /\ tmp' = PushTmp(r, tmp)
            /\ UNCHANGED liveVars

InitTmpDir ==
    /\ PairStart
    /\ server = <<Keys>> /\ ~modifiedExists /\ ~baseExists
    /\ pairs = <<>>
    /\ ran = NoRun
    /\ config = ValidConfig
    /\ verdict = "ok"
    /\ tmp = NoTmp
    /\ pulling = NotPulling

NextTmp ==
    \/ InitWithTmp
    \/ StatusWithTmp
    \/ PullWithTmp
    \/ PushWithTmp
    \/ DbEdit
    \/ ServerEdit

SpecTmp == InitTmpDir /\ [][NextTmp]_vars

\* ------------------------------------ pull with database edits in between
\* pull takes no lock on the schemas: a database client can commit between
\* any two of its geodiff calls.  Here pull is two steps, lines 205-261 (the
\* checks, the changeset base -> modified that decides needs_rebase, the
\* download) and lines 263-286 (the changeset of the server, its application),
\* and the database can be edited between them.
PullBeforeFails == {"none", "info", "diff_ours", "download"}
PullAfterFails == {"none", "diff_theirs", "apply_base", "apply_modified", "rebase", "comment"}

\* Lines 205-261.
PullBefore(s, f) ==
    IF ~s.wd THEN Out(s, "error", "no_workdir")
    ELSE IF ~exists(s.file) THEN Out(s, "error", "no_sync_file")
    ELSE IF f = "info" THEN Out(s, "error", "info")
    ELSE IF HasPendingChanges(get_push_changes(s)) THEN Out(s, "error", "pending")
    ELSE IF NoChangesOnServer(Len(s.srv), s.lv) THEN Out(s, "noop", "no_changes")
    ELSE IF f = "diff_ours" \/ ~(s.bEx /\ s.mEx) THEN Out(s, "error", "diff_ours")
    ELSE IF f = "download" THEN Out(s, "error", "download")
    ELSE Out(pull_project(s), "running", "downloaded")

\* Lines 263-286, with the locals the first part computed.
PullAfter(s1, gpkg_basefile_old, needs_rebase, f) ==
    LET base2their == _geodiff_create_changeset(gpkg_basefile_old, s1.bfile)
    IN  IF f = "diff_theirs" THEN Out(s1, "error", "diff_theirs")
        ELSE PullApply(s1, base2their, needs_rebase, f)

PullStart ==
    /\ ~pulling.active
    /\ \E f \in PullBeforeFails :
          LET r == PullBefore(State, f)
          IN  /\ Install("pull", r)
              /\ pulling' = IF r.res = "running"
                            THEN [active |-> TRUE,
                                  needs_rebase |->
                                      NeedsRebase(_geodiff_create_changeset(base, modified)),
                                  gpkg_basefile_old |-> basefile]
                            ELSE pulling
    /\ UNCHANGED tmpVars

PullEnd ==
    /\ pulling.active
    /\ \E f \in PullAfterFails :
          Install("pull", PullAfter(State, pulling.gpkg_basefile_old, pulling.needs_rebase, f))
    /\ pulling' = NotPulling
    /\ UNCHANGED tmpVars

\* The tool is one process: no other command of it runs during a pull.
InitBetweenPulls == ~pulling.active /\ CmdInitFromGpkg

InitLive ==
    /\ PairStart
    /\ server = <<Keys>> /\ ~modifiedExists /\ ~baseExists
    /\ pairs = <<>>
    /\ ran = NoRun
    /\ config = ValidConfig
    /\ verdict = "ok"
    /\ tmp = NoTmp
    /\ pulling = NotPulling

NextLive ==
    \/ InitBetweenPulls
    \/ PullStart
    \/ PullEnd
    \/ DbEdit
    \/ ServerEdit

SpecLive == InitLive /\ [][NextLive]_vars

\* ================================================================= claims
Cmds == {"init", "status", "pull", "push"}
Succeeded(res) == res \in {"ok", "noop"}

\* The working directory reports pending local file changes.
Pending == wdExists /\ file # basefile

\* The database side of the pair: the two schemas and the SchemaComment.
DbUnchanged == UNCHANGED <<baseExists, modifiedExists, base, modified, comment>>

\* The database is in step with the working copy: base holds what the sync
\* file of the working copy holds, and the file has no pending changes.
InStep ==
    /\ wdExists /\ baseExists /\ modifiedExists
    /\ ~Pending
    /\ base = file

\* The rows version v of the project inserted and deleted are reflected in d.
HasChangesOf(d, v) ==
    \/ v <= 1
    \/ LET cs == _geodiff_create_changeset(server[v - 1], server[v])
       IN  cs.ins \subseteq d /\ cs.del \cap d = {}

\* C1 (push convergence): when a push has uploaded and completed, the
\* changeset base -> modified is empty and SchemaComment.version is the
\* version of the file that push uploaded (the server's newest, which holds
\* the working copy's file).
C1_PushConvergence ==
    (last.op = "push" /\ last.res = "ok") =>
        /\ getsize(_geodiff_create_changeset(base, modified)) = 0
        /\ localVersion = Len(server)
        /\ server[Len(server)] = file
        /\ comment.version = Len(server)

C1_Witness ==
    /\ last.op = "push" /\ last.res = "ok"
    /\ base = modified /\ comment.version = 2

\* C2 (pull convergence): from a state in step (base = working-copy file, no
\* pending file changes) with base = modified, a pull that downloads a version
\* and completes leaves an empty changeset between base and the new
\* working-copy file, and SchemaComment.version equal to the server's version.
C2_PullConvergence ==
    [][ (last'.op = "pull" /\ last'.res = "ok" /\ InStep /\ base = modified) =>
            /\ len(_compare_datasets(base', file')) = 0
            /\ file' = server'[Len(server')]
            /\ comment'.version = Len(server') ]_vars

C2_Witness ==
    /\ last.op = "pull" /\ last.res = "ok"
    /\ base = modified /\ base = file /\ file # server[1]
    /\ comment.version = Len(server)

\* C3 (core consistency): after a successful init and any further commands
\* that all completed successfully, base holds what the working-copy sync
\* file holds.
C3_BaseEqualsFile == clean => (wdExists /\ baseExists /\ base = file)

C3_Witness ==
    /\ clean /\ last.op = "push" /\ last.res = "ok"
    /\ base = file /\ base # server[1]

\* C4 (no-op pull): a pull invoked with server version = local version leaves
\* base, modified and SchemaComment as they were.
C4_PullNoopFrame ==
    [][ (last'.op = "pull" /\ wdExists /\ Len(server) = localVersion) => DbUnchanged ]_vars

C4_Witness ==
    /\ last.op = "pull" /\ last.res = "noop"
    /\ Len(server) = localVersion /\ baseExists /\ comment.error # ""

\* C5 as stated: a command invoked with pending local file changes fails, and
\* has touched neither the database nor the server.
C5_PendingGuard_AsStated ==
    [][ (last'.op \in Cmds /\ Pending) =>
            (Failed(last'.res) /\ DbUnchanged /\ server' = server) ]_vars

\* init deletes and downloads the working directory again before it looks for
\* pending changes, when both schemas exist, the SchemaComment carries no
\* error and its version is not the working copy's.
InitReplacesWorkDir ==
    /\ baseExists /\ modifiedExists
    /\ comment # NoComment /\ comment.error = ""
    /\ StaleWorkDir(localVersion, comment.version)

\* C5 (amended): status, pull and push invoked with pending local file changes
\* fail without touching the database or the server; so does init, unless it
\* first replaces a working directory whose version is not the SchemaComment's
\* (the pending changes are then discarded with the directory); in that case
\* too the database and the server are left untouched.
C5_PendingGuard ==
    [][ (last'.op \in Cmds /\ Pending) =>
            /\ DbUnchanged /\ server' = server
            /\ (last'.op = "init" /\ InitReplacesWorkDir) \/ Failed(last'.res) ]_vars

C5_Witness ==
    /\ last.op = "status" /\ last.res = "error"
    /\ Pending /\ baseExists /\ modifiedExists

\* C6 (upload failure in push): a push that wrote the changeset to the sync
\* file and then failed to upload it leaves base, modified and SchemaComment
\* as they were.  (Only that failure changes the file and not the server.)
C6_UploadFailureFrame ==
    [][ (last'.op = "push" /\ Failed(last'.res) /\ file' # file /\ server' = server)
            => DbUnchanged ]_vars

C6_Witness ==
    /\ last.op = "push" /\ last.res = "error"
    /\ Pending /\ base # modified /\ file = modified

\* C7 as stated: on a pair initialised without error, a pull that follows a
\* failed pull does not report "nothing to do" unless base already holds the
\* changes of the working copy's version.
C7_NoSkippedVersion ==
    [][ ( /\ comment # NoComment /\ comment.error = ""
          /\ last.op = "pull" /\ Failed(last.res)
          /\ last'.op = "pull" /\ last'.res = "noop" )
            => HasChangesOf(base', localVersion') ]_vars

\* C8 as stated: between commands, the version in SchemaComment is the
\* version of the working copy.
C8_VersionInvariant ==
    (wdExists /\ baseExists /\ comment # NoComment) => comment.version = localVersion

\* C9 (init self-check): after init from file on a database where neither
\* schema existed, a reported success means file and base do not differ (and
\* no error is recorded); and whenever base was created and differs from the
\* file, SchemaComment carries the error and init reported failure.
C9_InitSelfCheck ==
    [][ (last'.op = "init" /\ ~baseExists /\ ~modifiedExists) =>
            /\ Succeeded(last'.res) =>
                  /\ baseExists' /\ len(_compare_datasets(file', base')) = 0
                  /\ comment'.error = ""
            /\ (baseExists' /\ len(_compare_datasets(file', base')) # 0) =>
                  /\ comment'.error # "" /\ Failed(last'.res) ]_vars

C9_Witness ==
    /\ last.op = "init" /\ last.res = "error"
    /\ baseExists /\ base # file /\ comment.error # ""

\* C10 as stated: once SchemaComment carries an error, no command changes it
\* and every command fails.
C10_ErrorPersists ==
    [][ comment.error # "" =>
            /\ comment'.error = comment.error
            /\ last'.op \in Cmds => Failed(last'.res) ]_vars

\* A step of init run with the given direction, whatever fails and whatever
\* the geodiff copies write.
InitStep(from_gpkg) ==
    \E f \in InitFails, c1 \in Corruptions, c2 \in Corruptions :
        Finish("init", init(State, from_gpkg, f, c1, c2))

\* C11 as stated: the subcommand selects the direction: every step of
\* init-from-gpkg is a step of init with the file authoritative
\* (from_gpkg = TRUE), and every step of init-from-db is a step of init with
\* the modified schema authoritative (from_gpkg = FALSE).
C11_InitDirection ==
    [][ /\ CmdInitFromGpkg => InitStep(TRUE)
        /\ CmdInitFromDb => InitStep(FALSE) ]_vars

\* The working copy is as it was: no download, no pull, no write to the file.
WorkDirUnchanged == UNCHANGED <<wdExists, localVersion, file, basefile>>

\* C12 (push requires server version = local version): a push invoked when
\* the server's version is not the working copy's fails with an error, and
\* has changed neither the working copy (no pull, no changeset written to the
\* file), nor base, modified or SchemaComment, nor the server (no upload).
C12_PushRequiresSameVersion ==
    [][ (last'.op = "push" /\ wdExists /\ Len(server) # localVersion) =>
            /\ last'.res = "error"
            /\ WorkDirUnchanged /\ DbUnchanged /\ server' = server ]_vars

C12_Witness ==
    /\ last.op = "push" /\ last.res = "error"
    /\ wdExists /\ exists(file) /\ ~Pending
    /\ Len(server) # localVersion
    /\ baseExists /\ modifiedExists /\ base # modified /\ base = file

\* C13 (status is read-only and idempotent): status changes neither base,
\* modified, SchemaComment, the working copy (file and version) nor the
\* server; and of two consecutive status calls that both complete, the second
\* reports the changes in the database (none, or the summary of the changeset
\* base -> modified) exactly as the first did.
C13_StatusReadOnly ==
    [][ last'.op = "status" =>
            /\ WorkDirUnchanged /\ DbUnchanged /\ server' = server
            /\ (last.op = "status" /\ Succeeded(last.res) /\ Succeeded(last'.res))
                  => report' = report ]_vars

C13_Witness ==
    /\ last.op = "status" /\ last.res = "ok"
    /\ base # modified
    /\ report = {[changes |-> TRUE,
                  summary |-> _geodiff_list_changes_summary(
                                  _geodiff_create_changeset(base, modified))]}

\* A precondition of init does not hold: both schemas exist and the
\* SchemaComment is missing or carries an error, only one schema exists, the
\* working copy has pending file changes (and is not about to be replaced),
\* or the project holds no sync file to initialise from.
InitPreconditionFails ==
    \/ baseExists /\ modifiedExists /\ (comment = NoComment \/ comment.error # "")
    \/ baseExists # modifiedExists
    \/ Pending /\ ~InitReplacesWorkDir
    \/ ~exists(server[Len(server)]) /\ ~baseExists /\ ~modifiedExists

\* C14 as stated: an init that aborts with an error because one of its
\* preconditions does not hold has changed nothing: the schemas, the
\* SchemaComment, the working directory and the server are as before.
C14_InitAbortFrame ==
    [][ (last'.op = "init" /\ last'.res = "error" /\ InitPreconditionFails) =>
            /\ DbUnchanged /\ WorkDirUnchanged /\ server' = server ]_vars

\* C15 (fail-fast across pairs): a command is run on the pairs in configured
\* order, on each pair after the ones before it succeeded; the first pair it
\* fails on is the last it is run on, and the pairs after that one are as
\* they were; each pair before it is as the command, completed on that pair
\* alone, leaves it.
C15_FailFast ==
    [][ ran'.op \in Cmds =>
            LET n == Len(ran'.res)
            IN  /\ n \in 1..NPairs
                /\ \A i \in 1..(n - 1) : Succeeded(ran'.res[i])
                /\ n < NPairs => Failed(ran'.res[n])
                /\ \A i \in (n + 1)..NPairs : pairs'[i] = pairs[i]
                /\ \A i \in 1..(n - 1) :
                      \E f \in FailsOf(ran'.op) :
                          LET r == RunOn(ran'.op, pairs[i], f)
                          IN  Succeeded(r.res) /\ pairs'[i] = r.st ]_vars

\* init stopped at the second pair: the first pair is initialised, the second
\* is not.
C15_Witness ==
    /\ ran.op = "init" /\ Len(ran.res) = 2
    /\ Succeeded(ran.res[1]) /\ Failed(ran.res[2])
    /\ pairs[1].bEx /\ pairs[1].cmt.version = 1
    /\ ~pairs[2].bEx

\* The calls of a command made to the diff engine or to the project client
\* (the other calls that can fail are made to the database).
CollaboratorFails(op) == FailsOf(op) \ {"none", "connect", "comment"}

\* A step of command op in which call f was made and failed.
FailingStep(op, f) ==
    \E c1 \in Corruptions, c2 \in Corruptions :
        LET r == IF op = "init" THEN dbsync_init(State, TRUE, f, c1, c2)
                 ELSE RunOn(op, State, f)
        IN  r.at = f /\ Finish(op, r)

\* C16 as stated: a command in which a call to the diff engine or to the
\* project client fails ends with a DbSyncError.
C16_FailuresAreDbSyncError ==
    [][ \A op \in Cmds : \A f \in CollaboratorFails(op) :
            FailingStep(op, f) => last'.res = "error" ]_vars

\* A configuration as the claim wants it: server URL and username, working
\* directory and diff-engine path are set, the schema list is not empty and
\* each entry carries the six keys with driver 'postgres'.
WellFormed(c) ==
    /\ c.url # None /\ c.username # None
    /\ c.working_dir # None
    /\ c.geodiff_exe # None
    /\ Len(c.schemas) > 0
    /\ \A i \in 1..Len(c.schemas) :
          /\ SchemaKeys \subseteq c.schemas[i].keys
          /\ c.schemas[i].driver = "postgres"

\* The valid configuration with one setting replaced.
With(field, value) == [ValidConfig EXCEPT ![field] = value]

\* C17 (configuration validation): validate_config accepts a configuration
\* exactly if it is well formed, and raises a ConfigError otherwise; changing
\* one setting of the valid configuration the way the test does raises the
\* error the test expects (username missing, working directory unset,
\* diff-engine path unset, empty schema list, an entry lacking keys, a driver
\* other than 'postgres').
C17_ValidateConfig ==
    verdict # "unchecked" =>
        /\ verdict = "ok" <=> WellFormed(config)
        /\ verdict # "ok" => verdict \in ConfigErrors
        /\ config = With("username", None) => verdict = ErrMergin
        /\ config = With("working_dir", None) => verdict = ErrWorkingDir
        /\ config = With("geodiff_exe", None) => verdict = ErrGeodiff
        /\ config = With("schemas", <<>>) => verdict = ErrNoSchemas
        /\ config = With("schemas", <<SchemaEntry({"modified"}, None)>>)
              => verdict = ErrSchema
        /\ config = With("schemas", <<SchemaEntry(SchemaKeys, "oracle")>>)
              => verdict = ErrDriver

\* A configuration rejected for the driver of its second entry.
C17_Witness ==
    /\ verdict = ErrDriver
    /\ Len(config.schemas) = 2
    /\ config.schemas[1] = ValidSchema
    /\ config.schemas[2].driver = "oracle"

\* C18 as stated: on a pair initialised without error, after a push that
\* wrote the changeset to the sync file and failed to upload it (the file differs from the server's copy, the server
\* is at the working copy's version), a push run next, with the server
\* reachable and every call succeeding, completes and leaves base equal to
\* modified.
C18_FailedPushRetryable ==
    ( /\ comment # NoComment /\ comment.error = ""
      /\ last.op = "push" /\ Failed(last.res)
      /\ Pending /\ Len(server) = localVersion )
        => LET retry == push(State, "none")
           IN  Succeeded(retry.res) /\ retry.st.base = retry.st.mod

\* ourChanges and theirChanges as a pull started now computes them.
OurChanges == _geodiff_create_changeset(base, modified)
TheirChanges == _geodiff_create_changeset(basefile, server[Len(server)])

\* The two changesets touch no row in common.
NoConflict(ours, theirs) ==
    (ours.ins \cup ours.del) \cap (theirs.ins \cup theirs.del) = {}

\* The rows changeset cs inserted are in dataset d, the rows it deleted are not.
Contains(d, cs) == cs.ins \subseteq d /\ cs.del \cap d = {}

\* C19 as stated: a pull that starts with a non-empty changeset base ->
\* modified (ourChanges) that does not conflict with the server's changes, and
\* that downloads a version and completes, leaves base equal to the new
\* working-copy file, modified with theirChanges and ourChanges both in it,
\* and the changeset base -> modified equal to ourChanges again.
C19_PullPreservesEdits ==
    [][ ( /\ last'.op = "pull" /\ last'.res = "ok"
          /\ wdExists /\ exists(file) /\ baseExists /\ modifiedExists
          /\ Len(server) # localVersion
          /\ getsize(OurChanges) # 0
          /\ NoConflict(OurChanges, TheirChanges) )
            => /\ base' = file'
               /\ Contains(modified', TheirChanges) /\ Contains(modified', OurChanges)
               /\ _geodiff_create_changeset(base', modified') = OurChanges ]_vars

\* A pull started now gets as far as downloading a new version.
PullDownloads ==
    /\ wdExists /\ exists(file) /\ ~Pending
    /\ Len(server) # localVersion
    /\ baseExists /\ modifiedExists

\* What a pull that ended at call a ("done": after the last call) has done to
\* base and modified.
PullOrder(a) ==
    IF getsize(OurChanges) = 0
    THEN /\ a # "rebase"
         /\ base' = IF a = "apply_base" THEN base
                    ELSE _geodiff_apply_changeset(base, TheirChanges)
         /\ modified' = IF a \in {"apply_base", "apply_modified"} THEN modified
                        ELSE _geodiff_apply_changeset(modified, TheirChanges)
    ELSE /\ a # "apply_modified"
         /\ modified' = IF a = "rebase" THEN modified
                        ELSE _geodiff_rebase(base, modified, TheirChanges)
         /\ base' = IF a \in {"rebase", "apply_base"} THEN base
                    ELSE _geodiff_apply_changeset(base, TheirChanges)

\* C20 (branch selection and order in pull): in a pull that downloads a new
\* version, whatever call it ends at: if base -> modified was empty before the
\* download, theirChanges is applied to base and then to modified (a pull
\* that ends between the two has changed base only); otherwise modified is
\* changed by the rebase only, computed against base as it was, and
\* theirChanges is applied to base after it (a pull that ends between the two
\* has changed modified only).  A pull that completes has applied theirChanges
\* to base once.
C20_PullOrder ==
    [][ (last'.op = "pull" /\ PullDownloads) =>
            \A f \in PullFails :
                LET r == pull(State, f)
                IN  ( /\ r.at \in {"rebase", "apply_base", "apply_modified", "comment", "done"}
                      /\ Finish("pull", r) ) => PullOrder(r.at) ]_vars

\* A pull without rebase that ended between the two applications: base holds
\* the new version, modified still the old one.
C20_Witness ==
    /\ last.op = "pull" /\ last.res = "error"
    /\ localVersion = 2 /\ server[2] # server[1]
    /\ comment.version = 1 /\ comment.error = ""
    /\ base = server[2] /\ modified = server[1] /\ file = server[2]

\* The SchemaComment is there and carries no error.
CommentOk == comment # NoComment /\ comment.error = ""

\* A step of init from the file in which no call fails.
InitNoFault ==
    Finish("init", dbsync_init(State, TRUE, "none", NoCorruption, NoCorruption))

\* C21 (init from file on existing schemas): an init invoked when both schemas
\* exist leaves base, modified and SchemaComment as they were; if it ends
\* without error, the file equals base, and it is a no-op exactly if the file
\* equals modified too (otherwise it reports the pending changes); and when
\* nothing else stops it (the comment is in order, the working copy has the
\* file and no pending changes, no call fails) it fails exactly if the file
\* differs from base.
C21_InitExistingSchemas ==
    [][ (last'.op = "init" /\ baseExists /\ modifiedExists) =>
            /\ DbUnchanged
            /\ Succeeded(last'.res) =>
                  /\ len(_compare_datasets(file', base)) = 0
                  /\ last'.res = "noop" <=> len(_compare_datasets(file', modified)) = 0
            /\ (InitNoFault /\ CommentOk /\ exists(file') /\ (InitReplacesWorkDir \/ ~Pending))
                  => (Failed(last'.res) <=> len(_compare_datasets(file', base)) # 0) ]_vars

\* Init found the file, base and modified in sync.
C21_Witness ==
    /\ last.op = "init" /\ last.res = "noop"
    /\ baseExists /\ modifiedExists
    /\ base = file /\ modified = file

\* Outcome r of a command has left both schemas as they are.
SchemasKept(r) ==
    /\ r.st.bEx = baseExists /\ r.st.mEx = modifiedExists
    /\ r.st.base = base /\ r.st.mod = modified

\* The sync file init finds: the working copy's, or the one of the project's
\* latest version if the working directory has yet to be downloaded.
FileInitFinds == IF wdExists THEN file ELSE server[Len(server)]

\* C22 as stated: whenever exactly one of the two schemas exists, init in
\* either direction, whatever fails, ends with an error and has created or
\* copied no schema.
C22_AsymmetricFatal_AsStated ==
    (baseExists # modifiedExists) =>
        \A from_gpkg \in BOOLEAN, f \in InitFails, c1 \in Corruptions, c2 \in Corruptions :
            LET r == init(State, from_gpkg, f, c1, c2)
            IN  Failed(r.res) /\ SchemasKept(r)

\* C22 (amended): whenever exactly one of the two schemas exists, init from
\* the file ends with an error and has created or copied no schema; so does
\* init from the database when the schema that exists is base, or when the
\* sync file exists.  Init from the database with modified only and no sync
\* file is the start of an initialisation: with no pending file changes and
\* no call failing it creates base as a copy of modified and ends without
\* error.
C22_AsymmetricFatal ==
    (baseExists # modifiedExists) =>
        \A from_gpkg \in BOOLEAN, f \in InitFails, c1 \in Corruptions, c2 \in Corruptions :
            LET r == init(State, from_gpkg, f, c1, c2)
            IN  IF from_gpkg \/ baseExists \/ exists(FileInitFinds)
                THEN Failed(r.res) /\ SchemasKept(r)
                ELSE (f = "none" /\ c1 = NoCorruption /\ c2 = NoCorruption /\ ~Pending)
                        => /\ Succeeded(r.res)
                           /\ r.st.bEx /\ r.st.base = modified /\ r.st.mod = modified

\* Init has run on a database with the modified schema only, and failed.
C22_Witness ==
    /\ last.op = "init" /\ Failed(last.res)
    /\ modifiedExists /\ ~baseExists
    /\ wdExists /\ exists(file)


\* The working copy a download of version v creates.
DownloadedAt(r, v) ==
    /\ r.st.wd /\ r.st.lv = v
    /\ r.st.file = server[v] /\ r.st.bfile = server[v]

\* The working copy is the one init found.
WorkDirKept(r) ==
    /\ r.st.wd = wdExists /\ r.st.lv = localVersion
    /\ r.st.file = file /\ r.st.bfile = basefile

\* C23 (init brings the working copy to the recorded version): with both
\* schemas existing and an error-free SchemaComment, every init that connects
\* and whose download, when it needs one, succeeds ends with the working copy
\* at the comment's version, whatever happens afterwards: a missing working
\* directory is downloaded at that version, one of another version is replaced
\* by a download of that version (its content is not merged), and one already
\* at that version is left untouched.
C23_InitWorkDirVersion ==
    (baseExists /\ modifiedExists /\ CommentOk) =>
        \A from_gpkg \in BOOLEAN, f \in InitFails \ {"connect", "download"},
           c1 \in CopyInputs(State), c2 \in CopyInputs(State) :
            LET r == init(State, from_gpkg, f, c1, c2)
            IN  /\ r.st.wd /\ r.st.lv = comment.version
                /\ IF wdExists /\ localVersion = comment.version
                   THEN WorkDirKept(r)
                   ELSE DownloadedAt(r, comment.version)

C23_Witness ==
    /\ last.op = "init" /\ Succeeded(last.res)
    /\ baseExists /\ modifiedExists /\ CommentOk
    /\ wdExists /\ localVersion = comment.version
    /\ localVersion < Len(server)


\* The SchemaComment a successful init writes: the configured project and the
\* version of the working copy, no error.
CommentOf(r) == [name |-> ProjectName, version |-> r.st.lv, error |-> ""]

FreshInitFailures == {"copy1", "copy2", "compare", "self_check"}

\* C25 (failure tagging of a fresh init is total): at whichever point the
\* copy and self-check sequence of a fresh init fails, in either direction,
\* init ends with a DbSyncError and base carries a SchemaComment with an error.
C25_FailureTaggingTotal ==
    ~baseExists =>
        \A from_gpkg \in BOOLEAN, f \in InitFails, c1 \in Corruptions, c2 \in Corruptions :
            LET r == init(State, from_gpkg, f, c1, c2)
            IN  r.at \in FreshInitFailures =>
                    /\ r.res = "error"
                    /\ r.st.bEx /\ r.st.cmt.error # ""


\* C26 (push with nothing to push is a no-op): a push invoked when base and
\* modified hold the same content, so that the changeset from base to modified
\* has size zero, changes neither the sync file nor the working copy's
\* version, uploads no version, and leaves base, modified and SchemaComment as
\* they were.
C26_EmptyPushNoop ==
    [][ (last'.op = "push" /\ baseExists /\ modifiedExists
            /\ getsize(_geodiff_create_changeset(base, modified)) = 0) =>
            /\ UNCHANGED <<file, basefile, localVersion, wdExists>>
            /\ server' = server
            /\ DbUnchanged ]_vars

C26_Witness ==
    /\ last.op = "push" /\ last.res = "noop"
    /\ baseExists /\ modifiedExists /\ base = modified
    /\ wdExists /\ localVersion = Len(server)


\* C27 (temporary changeset files are cleaned up eagerly): once a command has
\* ended, none of the temporary changeset files of that command is left in
\* the temporary directory.
C27_TempFilesCleaned ==
    last.op \in Cmds => tmp \cap TmpFilesOf(last.op) = {}


\* C28 (the rebase decision of pull under live database edits): whatever a
\* database client commits between pull's changeset base -> modified and its
\* application of the server's changes, pull does not apply the server's
\* changes directly, without rebase, to a modified schema that differs from
\* base.
C28_RebaseDecisionValid ==
    [][ (pulling.active /\ ~pulling'.active /\ ~pulling.needs_rebase
            /\ modified' # modified) => modified = base ]_vars

=============================================================================
